---- MODULE Spec2Model ----
(***************************************************************************)
(* A model of resip, a minimal Redis-like key-value server:                *)
(*   storage.rs     the key map, TTL on get, key enumeration, save/load    *)
(*   rdb.rs         the snapshot reader and writer                         *)
(*   resp.rs        the reply encoder                                      *)
(*   command.rs     command parsing and execution                          *)
(*   server.rs /    the per-connection read / parse / execute / reply loop *)
(*   connection.rs                                                         *)
(* Text is a sequence of one-character strings, a file or a socket is a    *)
(* sequence of such characters or of byte values, Option<T> is a sequence  *)
(* of length 0 (None) or 1 (Some).                                         *)
(***************************************************************************)
EXTENDS Integers, Sequences, FiniteSets, TLC

VARIABLES
    variant,    \* which Storage implementation was constructed
    map,        \* the key map: key |-> [value, expiry]
    now,        \* the monotonic clock read by Instant::now()
    file,       \* the snapshot file: <<>> when it does not exist, else <<bytes>>
    last,       \* the last storage call and what it returned
    lastSet,    \* history: key |-> the Value of the most recent set
    sock,       \* per connection: the bytes the client wrote and the server has not read
    eof,        \* per connection: the client has shut down its side
    out,        \* per connection: the contents of the send_response calls, in order
    status,     \* per connection task: "open", "closed" (loop left) or "panicked"
    sent,       \* history, per connection: the frames the client wrote, in order
    log,        \* history, per connection: what each loop iteration decoded and did
    lock,       \* the RwLock of the key map: the tasks reading, the task writing
    task,       \* per task running in parallel: where it is in its command
    written,    \* history: the <<key, Value>> pairs handed to Storage::set
    seen,       \* history: the key spaces the map has held
    found_echo, \* per connection of handle_client (main.rs): its local found_echo
    echo_index  \* per connection of handle_client (main.rs): its local echo_index

storageVars == <<variant, map, now, file, last, lastSet>>
connVars == <<sock, eof, out, status, sent, log>>
mainVars == <<found_echo, echo_index>>
taskVars == <<lock, task, written, seen, mainVars>>
vars == <<variant, map, now, file, last, lastSet, sock, eof, out, status, sent, log,
          lock, task, written, seen, found_echo, echo_index>>

(***************************************************************************)
(* Bounds                                                                  *)
(***************************************************************************)
MaxTime == 2
MaxSends == 2       \* frames a client writes on one connection
MaxStringLen == 256 \* bytes of the longest string handed to the snapshot writer

(***************************************************************************)
(* Text                                                                    *)
(***************************************************************************)
None == <<>>
Some(x) == <<x>>

Keys == { <<"a">>, <<"a", "b">> }
NeverSetKey == <<"b", "a">>
Vals == { <<"b", "a", "r">>, <<"x">> }
Patterns == { <<"*">>, <<"a">>, <<"a", "b">>, <<"a", "*">>, <<"b">>, <<"(">>, <<".">> }
Conns == {1}
Instants == 0..MaxTime
Expiries == {None} \cup { Some(t) : t \in Instants }

\* every ordering of a finite set, for HashMap iteration order
Orders(S) ==
    { f \in [1..Cardinality(S) -> S] : \A i, j \in 1..Cardinality(S) : f[i] = f[j] => i = j }

(***************************************************************************)
(* storage.rs                                                              *)
(***************************************************************************)
Value(v, e) == [value |-> v, expiry |-> e]

\* HashMap::insert
insert(m, key, value) ==
    [x \in DOMAIN m \cup {key} |-> IF x = key THEN value ELSE m[x]]

\* a set that keeps the entry a key already has
set_keep_existing(m, key, value) ==
    IF key \in DOMAIN m THEN m ELSE insert(m, key, value)

\* a set that leaves the deadline of an entry that has one as it was
set_keeping_expiry(m, key, value) ==
    IF key \in DOMAIN m /\ m[key].expiry # None
    THEN insert(m, key, Value(value.value, m[key].expiry))
    ELSE insert(m, key, value)

\* InMemoryStorage::set and RdbStorage::set
set(m, key, value) == insert(m, key, value)

\* a get that treats the instant of expiry itself as expired
get_expired_at_deadline(m, t, key) ==
    IF key \notin DOMAIN m
    THEN None
    ELSE LET value == m[key]
         IN  IF value.expiry # None /\ t >= value.expiry[1]
             THEN None
             ELSE Some(value)

\* InMemoryStorage::get and RdbStorage::get, at clock reading t
get(m, t, key) ==
    IF key \notin DOMAIN m
    THEN None
    ELSE LET value == m[key]
         IN  IF value.expiry # None /\ t > value.expiry[1]
             THEN None
             ELSE Some(value)

\* the loop of needle_in_haystack that builds the regex source
RECURSIVE needle_of(_)
needle_of(key) ==
    IF key = <<>>
    THEN <<>>
    ELSE (IF Head(key) = "*" THEN <<".", "*">> ELSE <<Head(key)>>) \o needle_of(Tail(key))

\* Regex::new: the syntax of the regex crate over the characters of the model.
\* "(" opens a group that nothing closes, "*" needs an expression before it.
RECURSIVE regex_valid(_, _)
regex_valid(needle, i) ==
    IF i > Len(needle)
    THEN TRUE
    ELSE /\ needle[i] # "("
         /\ (needle[i] = "*" => i > 1)
         /\ regex_valid(needle, i + 1)

\* the parsed regex: a sequence of [c, star], c a literal or "." (any character)
RECURSIVE regex_items(_, _)
regex_items(needle, i) ==
    IF i > Len(needle)
    THEN <<>>
    ELSE IF needle[i] = "*"
         THEN regex_items(needle, i + 1)
         ELSE <<[c |-> needle[i], star |-> (i < Len(needle) /\ needle[i + 1] = "*")]>>
              \o regex_items(needle, i + 1)

char_match(c, ch) == IF c = "." THEN ch # "\n" ELSE c = ch

\* does the regex from item i on match a prefix of s[j..]
RECURSIVE match_at(_, _, _, _)
match_at(items, i, s, j) ==
    IF i > Len(items)
    THEN TRUE
    ELSE IF items[i].star
         THEN \/ match_at(items, i + 1, s, j)
              \/ /\ j <= Len(s)
                 /\ char_match(items[i].c, s[j])
                 /\ match_at(items, i, s, j + 1)
         ELSE /\ j <= Len(s)
              /\ char_match(items[i].c, s[j])
              /\ match_at(items, i + 1, s, j + 1)

\* Regex::is_match: an unanchored search
is_match(items, s) == \E j \in 1..(Len(s) + 1) : match_at(items, 1, s, j)

\* a matcher that compares the pattern with the key instead of building a regex
needle_in_haystack_literal(key, haystack) ==
    LET keep(it) == it = key
    IN  SelectSeq(haystack, keep)

\* needle_in_haystack; the caller has checked regex_valid (Regex::new(..).unwrap())
needle_in_haystack(key, haystack) ==
    LET re == regex_items(needle_of(key), 1)
        keep(it) == is_match(re, it)
    IN  SelectSeq(haystack, keep)

needle_panics(key) == ~regex_valid(needle_of(key), 1)

\* InMemoryStorage::keys and RdbStorage::keys, the map iterated in order `haystack`
keys(k, haystack) == Some(needle_in_haystack(k, haystack))

(***************************************************************************)
(* Bytes and text                                                          *)
(***************************************************************************)
\* the printable ASCII characters, codes 32 to 126, in order (GRAVE is code 96)
Printable ==
    << " ", "!", "\"", "#", "$", "%", "&", "'", "(", ")", "*", "+", ",", "-", ".", "/",
       "0", "1", "2", "3", "4", "5", "6", "7", "8", "9", ":", ";", "<", "=", ">", "?",
       "@", "A", "B", "C", "D", "E", "F", "G", "H", "I", "J", "K", "L", "M", "N", "O",
       "P", "Q", "R", "S", "T", "U", "V", "W", "X", "Y", "Z", "[", "\\", "]", "^", "_",
       "GRAVE", "a", "b", "c", "d", "e", "f", "g", "h", "i", "j", "k", "l", "m", "n", "o",
       "p", "q", "r", "s", "t", "u", "v", "w", "x", "y", "z", "{", "|", "}", "~" >>

NUL == "\\0"
CR == "\r"
LF == "\n"
Replacement == "\\uFFFD"

\* the byte of an ASCII character (str::as_bytes, one character at a time)
CharCode(c) ==
    IF c = NUL THEN 0
    ELSE IF c = LF THEN 10
    ELSE IF c = CR THEN 13
    ELSE 31 + (CHOOSE i \in 1..Len(Printable) : Printable[i] = c)

\* the character of a byte (String::from_utf8_lossy, one byte at a time):
\* bytes of 128 and more are not UTF-8 on their own and become U+FFFD
CodeChar(b) ==
    IF b = 0 THEN NUL
    ELSE IF b = 10 THEN LF
    ELSE IF b = 13 THEN CR
    ELSE IF b >= 32 /\ b <= 126 THEN Printable[b - 31]
    ELSE IF b >= 128 THEN Replacement
    ELSE "\\x" \o ToString(b)

\* the sequence f as an explicit tuple
Seq_of(f) == <<>> \o f

as_bytes(text) == Seq_of([i \in 1..Len(text) |-> CharCode(text[i])])
from_utf8_lossy(bytes) == Seq_of([i \in 1..Len(bytes) |-> CodeChar(bytes[i])])

\* SystemTime::now() in milliseconds since the epoch when Instant::now() reads t
SystemTimeAt(t) == t + 5000

(***************************************************************************)
(* rdb.rs: the writer                                                      *)
(***************************************************************************)
Magic == as_bytes(<<"R", "E", "D", "I", "S">>)

\* write_rdb_string: `k.len() as u8`, then the bytes of k
write_rdb_string(k) == <<Len(k) % 256>> \o as_bytes(k)

\* the entry loop of write_rdb_file, the map iterated in order `order`
RECURSIVE write_rdb_entries(_, _, _)
write_rdb_entries(m, order, i) ==
    IF i > Len(order)
    THEN <<>>
    ELSE <<0>> \o write_rdb_string(order[i]) \o write_rdb_string(m[order[i]].value)
         \o write_rdb_entries(m, order, i + 1)

\* the bytes write_rdb_file hands to write_all
write_rdb_file(m, order) ==
    Magic \o <<0, 0, 0, 9>> \o <<250, 254, 1, 1>> \o write_rdb_entries(m, order, 1) \o <<255>>

(***************************************************************************)
(* rdb.rs: the reader.  A parse step yields [tag, ...] with tag "ok",      *)
(* "err" (a returned Err) or "panic" (a read past the end of the buffer).  *)
(***************************************************************************)
\* the first index of byte b in buf, 0 if there is none
IndexOf(buf, b) ==
    IF \E i \in 1..Len(buf) : buf[i] = b
    THEN CHOOSE i \in 1..Len(buf) : buf[i] = b /\ \A j \in 1..(i - 1) : buf[j] # b
    ELSE 0

Drop(buf, n) == SubSeq(buf, n + 1, Len(buf))

parse_rdb_header(buf) ==
    IF Len(buf) < 9
    THEN [tag |-> "err"]
    ELSE IF SubSeq(buf, 1, 5) # Magic
         THEN [tag |-> "err"]
         ELSE [tag |-> "ok", rest |-> Drop(buf, 9)]

parse_rbd_metadata(buf) ==
    IF IndexOf(buf, 254) = 0
    THEN [tag |-> "err"]
    ELSE [tag |-> "ok", rest |-> Drop(buf, IndexOf(buf, 254))]

parse_rbd_database_start(buf) ==
    IF IndexOf(buf, 251) = 0
    THEN [tag |-> "err"]
    ELSE IF Len(buf) - IndexOf(buf, 251) < 2
         THEN [tag |-> "panic"]
         ELSE [tag |-> "ok", rest |-> Drop(buf, IndexOf(buf, 251) + 2)]

parse_string(buf) ==
    IF buf = <<>>
    THEN [tag |-> "panic"]
    ELSE IF Len(buf) - 1 < buf[1]
         THEN [tag |-> "err"]
         ELSE [tag |-> "ok", text |-> from_utf8_lossy(SubSeq(buf, 2, 1 + buf[1])),
               rest |-> Drop(buf, 1 + buf[1])]

parse_rdb_string(buf, expiry) ==
    LET key == parse_string(buf)
    IN  IF key.tag # "ok"
        THEN [tag |-> key.tag]
        ELSE LET value == parse_string(key.rest)
             IN  IF value.tag # "ok"
                 THEN [tag |-> value.tag]
                 ELSE [tag |-> "ok", rest |-> value.rest,
                       entry |-> [key |-> key.text, value |-> value.text, expiry |-> expiry]]

\* u32::from_le_bytes / u64::from_le_bytes
RECURSIVE from_le_bytes(_)
from_le_bytes(bytes) ==
    IF bytes = <<>> THEN 0 ELSE Head(bytes) + 256 * from_le_bytes(Tail(bytes))

\* a parse_expiry that gives an entry whose timestamp has passed no expiry
parse_expiry_past_none(buf, seconds, t) ==
    LET width == IF seconds THEN 4 ELSE 8
    IN  IF Len(buf) < width + 1
        THEN [tag |-> "panic"]
        ELSE LET stamp == from_le_bytes(SubSeq(buf, 1, width))
                 system_time == IF seconds THEN stamp * 1000 ELSE stamp
             IN  [tag |-> "ok", rest |-> Drop(buf, width + 1),
                  expiry |-> IF system_time >= SystemTimeAt(t)
                             THEN Some(t + (system_time - SystemTimeAt(t)))
                             ELSE None]

\* parse_expiry at Instant t: `width` bytes of timestamp and one reserved byte
parse_expiry(buf, seconds, t) ==
    LET width == IF seconds THEN 4 ELSE 8
    IN  IF Len(buf) < width + 1
        THEN [tag |-> "panic"]
        ELSE LET stamp == from_le_bytes(SubSeq(buf, 1, width))
                 system_time == IF seconds THEN stamp * 1000 ELSE stamp
             IN  [tag |-> "ok", rest |-> Drop(buf, width + 1),
                  expiry |-> IF system_time >= SystemTimeAt(t)
                             THEN Some(t + (system_time - SystemTimeAt(t)))
                             ELSE Some(t - 1000)]

\* parse_rdb_entry: tag "ok" with entry None at the end of the entries
parse_rdb_entry(buf, t) ==
    IF buf = <<>>
    THEN [tag |-> "ok", rest |-> buf, entry |-> None]
    ELSE IF buf[1] = 255
    THEN [tag |-> "ok", rest |-> Tail(buf), entry |-> None]
    ELSE IF buf[1] = 0
    THEN LET r == parse_rdb_string(Tail(buf), None)
         IN  IF r.tag = "ok" THEN [r EXCEPT !.entry = Some(r.entry)] ELSE r
    ELSE IF buf[1] \in {252, 253}
    THEN LET e == parse_expiry(Tail(buf), buf[1] = 253, t)
         IN  IF e.tag # "ok"
             THEN [tag |-> e.tag]
             ELSE LET r == parse_rdb_string(e.rest, e.expiry)
                  IN  IF r.tag = "ok" THEN [r EXCEPT !.entry = Some(r.entry)] ELSE r
    ELSE [tag |-> "err"]

\* the entry loop of parse_rdb_file: an Err ends the loop and keeps m
RECURSIVE parse_rdb_entries(_, _, _)
parse_rdb_entries(buf, m, t) ==
    LET r == parse_rdb_entry(buf, t)
    IN  IF r.tag = "panic"
        THEN [tag |-> "panic"]
        ELSE IF r.tag = "err"
        THEN [tag |-> "ok", map |-> m, reported |-> TRUE]
        ELSE IF r.entry = None
        THEN [tag |-> "ok", map |-> m, reported |-> FALSE]
        ELSE parse_rdb_entries(r.rest,
                 insert(m, r.entry[1].key, Value(r.entry[1].value, r.entry[1].expiry)), t)

\* parse_rdb_file on the file `f` (None when File::open fails), at Instant t
parse_rdb_file(f, t) ==
    IF f = None
    THEN [tag |-> "ok", map |-> << >>, reported |-> FALSE]
    ELSE IF f[1] = <<>>
    THEN [tag |-> "ok", map |-> << >>, reported |-> FALSE]
    ELSE LET v == parse_rdb_header(f[1])
         IN  IF v.tag # "ok" THEN [tag |-> v.tag]
             ELSE LET md == parse_rbd_metadata(v.rest)
                  IN  IF md.tag # "ok" THEN [tag |-> md.tag]
                      ELSE LET db == parse_rbd_database_start(md.rest)
                           IN  IF db.tag # "ok" THEN [tag |-> db.tag]
                               ELSE parse_rdb_entries(db.rest, << >>, t)

(***************************************************************************)
(* resp.rs: the reply encoder                                              *)
(***************************************************************************)
Text(t) == [kind |-> "Text", v |-> t]
SimpleText(t) == [kind |-> "SimpleText", v |-> t]
Int32(n) == [kind |-> "Int", v |-> n]
Nil == [kind |-> "Nil", v |-> <<>>]

CRLF == <<CR, LF>>
Digit(d) == Printable[17 + d]

\* the decimal digits of a natural number ({} of format!)
RECURSIVE Decimal(_)
Decimal(n) == IF n < 10 THEN <<Digit(n)>> ELSE Decimal(n \div 10) \o <<Digit(n % 10)>>

Display(n) == IF n < 0 THEN <<"-">> \o Decimal(0 - n) ELSE Decimal(n)

\* Entry::to_string
Entry_to_string(entry) ==
    IF entry.kind = "Text" THEN <<"$">> \o Display(Len(entry.v)) \o CRLF \o entry.v \o CRLF
    ELSE IF entry.kind = "SimpleText" THEN <<"+">> \o entry.v \o CRLF
    ELSE IF entry.kind = "Int" THEN <<":">> \o Display(entry.v) \o CRLF
    ELSE <<"$", "-", "1">> \o CRLF

RECURSIVE Concat(_)
Concat(qs) == IF qs = <<>> THEN <<>> ELSE Head(qs) \o Concat(Tail(qs))

\* Array::to_string
Array_to_string(entries) ==
    <<"*">> \o Display(Len(entries)) \o CRLF
    \o Concat(Seq_of([i \in 1..Len(entries) |-> Entry_to_string(entries[i])]))

(***************************************************************************)
(* command.rs                                                              *)
(***************************************************************************)
PING == <<"P", "I", "N", "G">>
ECHO == <<"E", "C", "H", "O">>
GET == <<"G", "E", "T">>
SET == <<"S", "E", "T">>
CONFIG == <<"C", "O", "N", "F", "I", "G">>
SAVE == <<"S", "A", "V", "E">>
KEYS == <<"K", "E", "Y", "S">>
PONG == <<"P", "O", "N", "G">>
OK == <<"O", "K">>
ErrUnknownCommand ==
    <<"-", "E", "R", "R", " ", "u", "n", "k", "n", "o", "w", "n", " ",
      "c", "o", "m", "m", "a", "n", "d">> \o CRLF

IsDigit(ch) == \E d \in 0..9 : ch = Digit(d)
DigitValue(ch) == CHOOSE d \in 0..9 : ch = Digit(d)

RECURSIVE DecimalValue(_)
DecimalValue(t) ==
    IF t = <<>> THEN 0 ELSE 10 * DecimalValue(SubSeq(t, 1, Len(t) - 1)) + DigitValue(t[Len(t)])

\* str::parse::<u64>: an optional "+", then digits (the numbers of the model
\* have few digits, far below 2^64)
parse_u64(t) ==
    LET digits == IF t # <<>> /\ t[1] = "+" THEN Tail(t) ELSE t
    IN  IF digits # <<>> /\ (\A i \in 1..Len(digits) : IsDigit(digits[i]))
        THEN Some(DecimalValue(digits))
        ELSE None

\* parse_arg: Ok(text) as Some, Err(CommandError) as None
parse_arg(args, at) ==
    IF at + 1 <= Len(args) /\ args[at + 1].kind = "Text" THEN Some(args[at + 1].v) ELSE None

\* the texts among args[1..]
RECURSIVE echo_args_of(_, _)
echo_args_of(args, i) ==
    IF i > Len(args)
    THEN <<>>
    ELSE (IF args[i].kind = "Text" THEN <<args[i].v>> ELSE <<>>) \o echo_args_of(args, i + 1)

\* the expiry of the SET branch of CommandParser::new, parsed at Instant t
set_expiry(args, t) ==
    IF Len(args) = 5 /\ args[5].kind = "Text"
    THEN IF parse_u64(args[5].v) = None
         THEN [tag |-> "panic"]
         ELSE [tag |-> "ok", expiry |-> Some(t + parse_u64(args[5].v)[1])]
    ELSE [tag |-> "ok", expiry |-> None]

KnownCommands == {PING, ECHO, GET, SET, CONFIG, SAVE, KEYS}

\* the arms of the match on the command name in CommandParser::new, for a
\* name in KnownCommands
known_command(args, t) ==
    LET cmd == args[1].v
    IN  IF cmd = PING THEN [tag |-> "ok", cmd |-> [name |-> "Ping"]]
        ELSE IF cmd = ECHO
        THEN [tag |-> "ok", cmd |-> [name |-> "Echo", args |-> echo_args_of(args, 2)]]
        ELSE IF cmd = GET
        THEN IF parse_arg(args, 1) = None
             THEN [tag |-> "err"]
             ELSE [tag |-> "ok", cmd |-> [name |-> "Get", key |-> parse_arg(args, 1)[1]]]
        ELSE IF cmd = SET
        THEN IF parse_arg(args, 1) = None \/ parse_arg(args, 2) = None
             THEN [tag |-> "err"]
             ELSE IF set_expiry(args, t).tag = "panic"
             THEN [tag |-> "panic"]
             ELSE [tag |-> "ok",
                   cmd |-> [name |-> "Set", key |-> parse_arg(args, 1)[1],
                            value |-> parse_arg(args, 2)[1],
                            expiry |-> set_expiry(args, t).expiry]]
        ELSE IF cmd = CONFIG
        THEN IF parse_arg(args, 2) = None
             THEN [tag |-> "err"]
             ELSE [tag |-> "ok", cmd |-> [name |-> "ConfigGet", key |-> parse_arg(args, 2)[1]]]
        ELSE IF cmd = SAVE THEN [tag |-> "ok", cmd |-> [name |-> "Save"]]
        ELSE \* KEYS
             IF parse_arg(args, 1) = None
             THEN [tag |-> "err"]
             ELSE [tag |-> "ok", cmd |-> [name |-> "Keys", key |-> parse_arg(args, 1)[1]]]

\* a parser whose match falls through to PING for a name it does not know
CommandParser_new_default_ping(args, t) ==
    IF args = <<>> \/ args[1].kind # "Text"
    THEN [tag |-> "err"]
    ELSE IF args[1].v \in KnownCommands
    THEN known_command(args, t)
    ELSE [tag |-> "ok", cmd |-> [name |-> "Ping"]]

\* CommandParser::new at Instant t: tag "ok" with the command, "err" for
\* Err(CommandError), "panic" for the expect on the expiry
CommandParser_new(args, t) ==
    IF args = <<>> \/ args[1].kind # "Text"
    THEN [tag |-> "err"]
    ELSE IF args[1].v \in KnownCommands
    THEN known_command(args, t)
    ELSE [tag |-> "err"]

\* [String]::join
RECURSIVE join(_, _)
join(texts, sep) ==
    IF texts = <<>> THEN <<>>
    ELSE IF Len(texts) = 1 THEN texts[1]
    ELSE texts[1] \o sep \o join(Tail(texts), sep)

(***************************************************************************)
(* storage.rs: save, load, config                                          *)
(***************************************************************************)
ConfigDir == <<"d">>
ConfigPath == <<"f">>

\* Storage::config
config(v) ==
    IF v = "RdbStorage"
    THEN [dir |-> ConfigDir, path |-> ConfigPath]
    ELSE [dir |-> <<>>, path |-> <<>>]

\* what the file system may do to a write_rdb_file call
IoOutcomes == {"ok", "create_fails", "write_fails"}

\* Storage::save on map m: InMemoryStorage returns Ok(()); RdbStorage writes
\* a clone of the map.  File::create empties the file before write_all runs.
save(v, m, f, order, io) ==
    IF v = "InMemoryStorage" THEN [tag |-> "ok", file |-> f]
    ELSE IF io = "ok" THEN [tag |-> "ok", file |-> Some(write_rdb_file(m, order))]
    ELSE IF io = "create_fails" THEN [tag |-> "err", file |-> f]
    ELSE [tag |-> "err", file |-> Some(<<>>)]

\* a load that adds the entries of the file to the map it finds
load_merging(v, m, f, t) ==
    IF v = "InMemoryStorage" THEN [tag |-> "ok", map |-> m]
    ELSE IF parse_rdb_file(f, t).tag = "ok"
    THEN [tag |-> "ok",
          map |-> [k \in DOMAIN m \cup DOMAIN parse_rdb_file(f, t).map |->
                      IF k \in DOMAIN parse_rdb_file(f, t).map
                      THEN parse_rdb_file(f, t).map[k] ELSE m[k]]]
    ELSE [tag |-> "panic", map |-> m]

\* Storage::load at Instant t: RdbStorage unwraps the result of parse_rdb_file
load(v, m, f, t) ==
    IF v = "InMemoryStorage" THEN [tag |-> "ok", map |-> m]
    ELSE IF parse_rdb_file(f, t).tag = "ok"
    THEN [tag |-> "ok", map |-> parse_rdb_file(f, t).map]
    ELSE [tag |-> "panic", map |-> m]

(***************************************************************************)
(* command.rs: execute.  The result is [tag, reply, map, file]: tag "ok"   *)
(* with the reply text, "err" for Err(CommandError), "panic".              *)
(***************************************************************************)
TextEntries(texts) == Seq_of([i \in 1..Len(texts) |-> Text(texts[i])])

\* a GET that answers an absent key with an empty text
GetCommand_reply_empty(found) ==
    Entry_to_string(SimpleText(IF found = None THEN <<>> ELSE found[1].value))

\* the reply of GetCommand::execute for the result of Storage::get
GetCommand_reply(found) ==
    IF found = None THEN Entry_to_string(Nil) ELSE Entry_to_string(SimpleText(found[1].value))

\* a GET that evicts the entry it finds expired
GetCommand_execute_evicting(cmd, m, f, t) ==
    [tag |-> "ok", reply |-> GetCommand_reply(get(m, t, cmd.key)),
     map |-> IF cmd.key \in DOMAIN m /\ get(m, t, cmd.key) = None
             THEN [k \in DOMAIN m \ {cmd.key} |-> m[k]]
             ELSE m,
     file |-> f]

\* GetCommand::execute: Storage::get takes &self and only reads the map
GetCommand_execute(cmd, m, f, t) ==
    [tag |-> "ok", reply |-> GetCommand_reply(get(m, t, cmd.key)), map |-> m, file |-> f]

\* Command::execute of every command, with the storage in state (v, m, f) at
\* Instant t; `order` is the iteration order of the map, `io` the fate of a write
execute(cmd, v, m, f, t, order, io) ==
    IF cmd.name = "Ping"
    THEN [tag |-> "ok", reply |-> Entry_to_string(SimpleText(PONG)), map |-> m, file |-> f]
    ELSE IF cmd.name = "Echo"
    THEN [tag |-> "ok", reply |-> Entry_to_string(SimpleText(join(cmd.args, CRLF))),
          map |-> m, file |-> f]
    ELSE IF cmd.name = "Get"
    THEN GetCommand_execute(cmd, m, f, t)
    ELSE IF cmd.name = "Set"
    THEN [tag |-> "ok", reply |-> Entry_to_string(SimpleText(OK)),
          map |-> set(m, cmd.key, Value(cmd.value, cmd.expiry)), file |-> f]
    ELSE IF cmd.name = "ConfigGet"
    THEN [tag |-> "ok",
          reply |-> IF cmd.key = <<"d", "i", "r">>
                    THEN Array_to_string(<<Text(cmd.key), Text(config(v).dir)>>)
                    ELSE IF cmd.key = <<"d", "b", "f", "i", "l", "e", "n", "a", "m", "e">>
                    THEN Array_to_string(<<Text(cmd.key), Text(config(v).path)>>)
                    ELSE Entry_to_string(Nil),
          map |-> m, file |-> f]
    ELSE IF cmd.name = "Save"
    THEN IF save(v, m, f, order, io).tag = "ok"
         THEN [tag |-> "ok", reply |-> Entry_to_string(Nil), map |-> m,
               file |-> save(v, m, f, order, io).file]
         ELSE [tag |-> "err", reply |-> <<>>, map |-> m, file |-> save(v, m, f, order, io).file]
    ELSE \* Keys
         IF needle_panics(cmd.key)
         THEN [tag |-> "panic", reply |-> <<>>, map |-> m, file |-> f]
         ELSE [tag |-> "ok",
               reply |-> Array_to_string(TextEntries(keys(cmd.key, order)[1])),
               map |-> m, file |-> f]

(***************************************************************************)
(* The wire decoder.  The grammar file of RESPParser is not part of the    *)
(* sources at hand; the decoder follows the frame grammar of the design:   *)
(*   array  = "*" count CRLF, then count elements                          *)
(*   string = "$" length CRLF, then length bytes, then CRLF                *)
(*   int    = ":" signed-int CRLF                                          *)
(* A parse yields the pairs of the first array of the text and ignores     *)
(* what follows it.                                                        *)
(***************************************************************************)
\* the index after the digits that start at s[i]
RECURSIVE SkipDigits(_, _)
SkipDigits(s, i) == IF i <= Len(s) /\ IsDigit(s[i]) THEN SkipDigits(s, i + 1) ELSE i

HasCRLF(s, i) == i + 1 <= Len(s) /\ s[i] = CR /\ s[i + 1] = LF

\* a number that ends in CRLF, from s[i]: [ok, digits, negative, next]
ReadNumber(s, i) ==
    LET neg == i <= Len(s) /\ s[i] = "-"
        from == IF neg THEN i + 1 ELSE i
        to == SkipDigits(s, from)
    IN  IF to > from /\ HasCRLF(s, to)
        THEN [ok |-> TRUE, digits |-> SubSeq(s, from, to - 1), negative |-> neg, next |-> to + 2]
        ELSE [ok |-> FALSE]

\* one element at s[i]: [ok, pair, next]
ReadElement(s, i) ==
    IF i > Len(s) THEN [ok |-> FALSE]
    ELSE IF s[i] = "$"
    THEN LET n == ReadNumber(s, i + 1)
         IN  IF ~n.ok \/ n.negative THEN [ok |-> FALSE]
             ELSE LET len == DecimalValue(n.digits)
                  IN  IF HasCRLF(s, n.next + len)
                      THEN [ok |-> TRUE,
                            pair |-> [rule |-> "string", str |-> SubSeq(s, n.next, n.next + len - 1)],
                            next |-> n.next + len + 2]
                      ELSE [ok |-> FALSE]
    ELSE IF s[i] = ":"
    THEN LET n == ReadNumber(s, i + 1)
         IN  IF ~n.ok THEN [ok |-> FALSE]
             ELSE [ok |-> TRUE,
                   pair |-> [rule |-> "int",
                             str |-> (IF n.negative THEN <<"-">> ELSE <<>>) \o n.digits],
                   next |-> n.next]
    ELSE [ok |-> FALSE]

RECURSIVE ReadElements(_, _, _)
ReadElements(s, i, count) ==
    IF count = 0
    THEN [ok |-> TRUE, pairs |-> <<>>]
    ELSE LET e == ReadElement(s, i)
         IN  IF ~e.ok THEN [ok |-> FALSE]
             ELSE LET more == ReadElements(s, e.next, count - 1)
                  IN  IF ~more.ok THEN [ok |-> FALSE]
                      ELSE [ok |-> TRUE, pairs |-> <<e.pair>> \o more.pairs]

\* RESPParser::parse(Rule::array, str): Some(pairs of the array) or None
RESPParser_parse(str) ==
    IF str = <<>> \/ str[1] # "*"
    THEN None
    ELSE LET n == ReadNumber(str, 2)
         IN  IF ~n.ok \/ n.negative \/ DecimalValue(n.digits) = 0
             THEN None
             ELSE LET es == ReadElements(str, n.next, DecimalValue(n.digits))
                  IN  IF es.ok THEN Some(es.pairs) ELSE None

(***************************************************************************)
(* resp.rs: from pairs to entries                                          *)
(***************************************************************************)
\* extract_int_value (the integers of the model have few digits, within i32)
extract_int_value(pair) ==
    IF pair.str[1] = "-" THEN 0 - DecimalValue(Tail(pair.str)) ELSE DecimalValue(pair.str)

\* extract_string_value
extract_string_value(pair) == pair.str

\* extract_array_entries
extract_array_entries(pairs) ==
    Seq_of([i \in 1..Len(pairs) |->
               IF pairs[i].rule = "int"
               THEN Int32(extract_int_value(pairs[i]))
               ELSE Text(extract_string_value(pairs[i]))])

(***************************************************************************)
(* The storage interface called directly                                   *)
(***************************************************************************)
\* tokio::sync::RwLock::new: nobody holds the lock
Unlocked == [readers |-> {}, writer |-> None]

\* the connection tasks that run in parallel on the worker threads
Tasks == {1, 2}

\* a task between two commands
Idle == [pc |-> "idle", cmd |-> <<>>, tmp |-> <<>>]

\* no task is running a command; the locals of handle_client as declared
NoTasks ==
    /\ lock = Unlocked
    /\ task = [c \in Tasks |-> Idle]
    /\ written = {}
    /\ seen = {<< >>}
    /\ found_echo = [c \in Conns |-> FALSE]
    /\ echo_index = [c \in Conns |-> 0]

NoCall == [op |-> "none", key |-> <<>>, ret |-> <<>>, at |-> 0]

InitStorage ==
    /\ variant \in {"InMemoryStorage", "RdbStorage"}
    /\ map = << >>
    /\ now = 0
    /\ file = None
    /\ last = NoCall
    /\ lastSet = << >>
    /\ sock = [c \in Conns |-> <<>>]
    /\ eof = [c \in Conns |-> FALSE]
    /\ out = [c \in Conns |-> <<>>]
    /\ status = [c \in Conns |-> "closed"]
    /\ sent = [c \in Conns |-> <<>>]
    /\ log = [c \in Conns |-> <<>>]
    /\ NoTasks

\* `prev` records the entry the key had when set was called
StorageSet(key, v, e) ==
    /\ map' = set(map, key, Value(v, e))
    /\ lastSet' = insert(lastSet, key, Value(v, e))
    /\ last' = [op |-> "set", key |-> key, ret |-> <<>>, at |-> now,
                prev |-> IF key \in DOMAIN map THEN Some(map[key]) ELSE None]
    /\ UNCHANGED <<variant, now, file>>
    /\ UNCHANGED <<connVars, taskVars>>

StorageGet(key) ==
    /\ last' = [op |-> "get", key |-> key, ret |-> get(map, now, key), at |-> now]
    /\ UNCHANGED <<variant, map, now, file, lastSet>>
    /\ UNCHANGED <<connVars, taskVars>>

StorageKeys(k) ==
    /\ \E haystack \in Orders(DOMAIN map) :
          last' = IF needle_panics(k)
                  THEN [op |-> "panic", key |-> k, ret |-> <<>>, at |-> now]
                  ELSE [op |-> "keys", key |-> k, ret |-> keys(k, haystack), at |-> now]
    /\ UNCHANGED <<variant, map, now, file, lastSet>>
    /\ UNCHANGED <<connVars, taskVars>>

Tick ==
    /\ now < MaxTime
    /\ now' = now + 1
    /\ UNCHANGED <<variant, map, file, last, lastSet>>
    /\ UNCHANGED <<connVars, taskVars>>

NextStorage ==
    \/ \E key \in Keys, v \in Vals, e \in Expiries : StorageSet(key, v, e)
    \/ \E key \in Keys : StorageGet(key)
    \/ \E k \in Patterns : StorageKeys(k)
    \/ Tick

SpecStorage == InitStorage /\ [][NextStorage]_vars

(***************************************************************************)
(* Properties of the storage interface (SpecStorage)                       *)
(***************************************************************************)
Range(q) == { q[i] : i \in 1..Len(q) }
HasWildcard(p) == "*" \in Range(p)

\* C1: in both storage variants, once set(k, v, expiry = none) was the most
\* recent set on k, get(k) returns v: the get just made returned it, and a get
\* made in the current state would, whatever k held before and whatever was
\* done to other keys since.
C1_SetThenGet ==
    /\ \A k \in DOMAIN lastSet :
          lastSet[k].expiry = None
              => get(map, now, k) = Some(Value(lastSet[k].value, None))
    /\ (last.op = "get" /\ last.key \in DOMAIN lastSet /\ lastSet[last.key].expiry = None)
          => (last.ret # None /\ last.ret[1].value = lastSet[last.key].value)

\* a get has returned the value of a set without expiry, made at a later clock
\* reading and with other keys in the map
C1_Witness ==
    /\ last.op = "get"
    /\ last.key \in DOMAIN lastSet
    /\ lastSet[last.key].expiry = None
    /\ last.ret = Some(Value(<<"x">>, None))
    /\ last.at > 0
    /\ Cardinality(DOMAIN map) > 1

\* C3: TTL is enforced on get: when the most recent set on k carried expiry e,
\* a get(k) made at clock reading t returns absent if t is past e and the
\* value of that set if t is not past e.
C3_TtlOnGet ==
    /\ \A k \in DOMAIN lastSet :
          lastSet[k].expiry # None
              => get(map, now, k) =
                    (IF now > lastSet[k].expiry[1] THEN None ELSE Some(lastSet[k]))
    /\ (last.op = "get" /\ last.key \in DOMAIN lastSet /\ lastSet[last.key].expiry # None)
          => last.ret =
                (IF last.at > lastSet[last.key].expiry[1] THEN None ELSE Some(lastSet[last.key]))

\* a get made exactly at the deadline returned the value, and another key's
\* deadline has passed
C3_Witness ==
    /\ last.op = "get"
    /\ last.key \in DOMAIN lastSet
    /\ lastSet[last.key].expiry = Some(last.at)
    /\ last.ret # None
    /\ \E k \in DOMAIN lastSet :
          lastSet[k].expiry # None /\ now > lastSet[k].expiry[1] /\ get(map, now, k) = None

\* C27: set fully replaces the entry of a key: every key of the map holds
\* exactly the (value, expiry) pair of the most recent set on it and no other
\* key is in the map; after a set without expiry the key is returned by get at
\* every clock reading, whatever deadline it had before; and after a set whose
\* deadline has not passed the key is live at the time of the set, also when
\* the entry it replaced had expired.
C27_SetReplaces ==
    /\ map = lastSet
    /\ last.op = "set"
          => /\ map[last.key] = lastSet[last.key]
             /\ lastSet[last.key].expiry = None
                   => \A t \in Instants : get(map, t, last.key) = Some(lastSet[last.key])
             /\ (lastSet[last.key].expiry # None /\ lastSet[last.key].expiry[1] >= last.at)
                   => get(map, last.at, last.key) = Some(lastSet[last.key])

\* a set without expiry has replaced an entry whose deadline had passed, with
\* another value, and a later clock reading still finds the key live
C27_Witness ==
    /\ last.op = "set"
    /\ last.prev # None
    /\ last.prev[1].expiry # None
    /\ last.at > last.prev[1].expiry[1]
    /\ last.prev[1].value # map[last.key].value
    /\ map[last.key].expiry = None
    /\ now > last.at
    /\ get(map, now, last.key) = Some(map[last.key])

\* C9: keys("*") over a non-empty key space returns every key of the key space
\* exactly once, in whatever order the map was iterated.
C9_KeysStar ==
    (last.op = "keys" /\ last.key = <<"*">> /\ DOMAIN map # {})
        => /\ last.ret # None
           /\ Range(last.ret[1]) = DOMAIN map
           /\ Len(last.ret[1]) = Cardinality(DOMAIN map)

\* keys("*") has answered over a key space of two keys, one of them expired
C9_Witness ==
    /\ last.op = "keys"
    /\ last.key = <<"*">>
    /\ Cardinality(DOMAIN map) = 2
    /\ Len(last.ret[1]) = 2
    /\ \E k \in DOMAIN map : get(map, now, k) = None

\* C10: for a pattern p without wildcard, keys(p) returns exactly [p] if p is
\* a key of the key space and an empty sequence otherwise.
C10_ExactKeyOnly ==
    (last.op = "keys" /\ ~HasWildcard(last.key))
        => last.ret = Some(IF last.key \in DOMAIN map THEN <<last.key>> ELSE <<>>)

\* glob matching of the whole text s[j..] against p[i..]: "*" stands for zero
\* or more characters, every other character for itself
RECURSIVE glob_match(_, _, _, _)
glob_match(p, i, s, j) ==
    IF i > Len(p)
    THEN j > Len(s)
    ELSE IF p[i] = "*"
         THEN \/ glob_match(p, i + 1, s, j)
              \/ (j <= Len(s) /\ glob_match(p, i, s, j + 1))
         ELSE j <= Len(s) /\ p[i] = s[j] /\ glob_match(p, i + 1, s, j + 1)

\* C16: keys(p) returns a key if and only if the whole key matches the glob
\* pattern p ("*" for zero or more characters, any other character literal).
C16_GlobMatch ==
    last.op = "keys"
        => Range(last.ret[1]) = { k \in DOMAIN map : glob_match(last.key, 1, k, 1) }

\* the entry of key k has an expiry and Instant t is past it
Expired(m, t, k) == k \in DOMAIN m /\ m[k].expiry # None /\ t > m[k].expiry[1]

\* C17: no read reveals a key whose expiry has passed: get returns None for
\* it and keys(pattern) does not list it, whatever the pattern.
C17_ExpiredHidden ==
    /\ (last.op = "get" /\ Expired(map, last.at, last.key)) => last.ret = None
    /\ last.op = "keys" => \A k \in Range(last.ret[1]) : ~Expired(map, last.at, k)

(***************************************************************************)
(* server.rs and connection.rs: one task per connection                    *)
(***************************************************************************)
BufSize == 112

Min(a, b) == IF a < b THEN a ELSE b

\* the frames a client writes: commands as arrays of bulk strings, and
\* texts that are no command frame
Frame(words) == Array_to_string(TextEntries(words))
LongText == Seq_of([i \in 1..BufSize |-> "x"])

CommandFrames ==
    { Frame(<<PING>>),
      Frame(<<ECHO, <<"b", "a", "r">> >>),
      Frame(<<GET, <<"a">> >>),
      Frame(<<GET, NeverSetKey>>),
      Frame(<<SET, <<"a">>, <<"b", "a", "r">> >>),
      Frame(<<SET, <<"a">>, <<"x">>, <<"P", "X">>, <<"1">> >>),
      Frame(<<SET, <<"a">>, <<"x">>, <<"P", "X">>, <<"z">> >>),
      Frame(<<CONFIG, GET, <<"d", "i", "r">> >>),
      Frame(<<SAVE>>),
      Frame(<<KEYS, <<"*">> >>),
      Frame(<<KEYS, <<"(">> >>),
      Frame(<<<<"F", "O", "O", "X">> >>),
      Frame(<<ECHO, LongText>>) }

OtherFrames ==
    { PING \o CRLF,                                  \* no array sigil
      Array_to_string(<<Int32(5)>>) }                \* an integer for a command name

ClientFrames == CommandFrames \cup OtherFrames

\* SET frames of 3, 4, 5 and 6 elements; the fifth element of a 5-element
\* frame is a bulk string of digits, an integer, or a bulk string of letters
SetFrames ==
    { Frame(<<SET, <<"a">>, <<"b", "a", "r">> >>),
      Frame(<<SET, <<"a">>, <<"x">>, <<"P", "X">> >>),
      Frame(<<SET, <<"a">>, <<"x">>, <<"P", "X">>, <<"1">> >>),
      Array_to_string(TextEntries(<<SET, <<"a">>, <<"x">>, <<"P", "X">> >>) \o <<Int32(1)>>),
      Frame(<<SET, <<"a">>, <<"x">>, <<"P", "X">>, <<"z">> >>),
      Frame(<<SET, <<"a">>, <<"x">>, <<"P", "X">>, <<"1">>, <<"z">> >>),
      Frame(<<GET, <<"a">> >>) }

\* the bytes of each frame (str::as_bytes)
FrameBytes == [frame \in ClientFrames \cup SetFrames |-> as_bytes(frame)]

InitServer ==
    /\ variant \in {"InMemoryStorage", "RdbStorage"}
    /\ map = << >>
    /\ now = 0
    /\ file = None
    /\ last = NoCall
    /\ lastSet = << >>
    /\ sock = [c \in Conns |-> <<>>]
    /\ eof = [c \in Conns |-> FALSE]
    /\ out = [c \in Conns |-> <<>>]
    /\ status = [c \in Conns |-> "open"]
    /\ sent = [c \in Conns |-> <<>>]
    /\ log = [c \in Conns |-> <<>>]
    /\ NoTasks

\* the client writes one frame to its socket
ClientSend(c, frame) ==
    /\ status[c] = "open"
    /\ ~eof[c]
    /\ Len(sent[c]) < MaxSends
    /\ sock' = [sock EXCEPT ![c] = @ \o FrameBytes[frame]]
    /\ sent' = [sent EXCEPT ![c] = Append(@, frame)]
    /\ UNCHANGED <<storageVars, eof, out, status, log, taskVars>>

\* the client shuts down its side of the connection
ClientClose(c) ==
    /\ status[c] = "open"
    /\ ~eof[c]
    /\ eof' = [eof EXCEPT ![c] = TRUE]
    /\ UNCHANGED <<storageVars, sock, out, status, sent, log, taskVars>>

\* Connection::read_command on the first n bytes of the socket: the whole
\* zeroed buffer becomes the message, not only the bytes read
read_command(bytes, n) ==
    from_utf8_lossy(SubSeq(bytes, 1, n) \o [i \in 1..(BufSize - n) |-> 0])

\* the number of bytes one read takes from a socket holding `available` bytes
read_size(available) == Min(BufSize, available)

\* a history record: the decoded entries, what became of them ("reply",
\* "error" or "panic"), the reply sent, the key map before and after
Logged(entries, outcome, reply, after) ==
    [args |-> entries, outcome |-> outcome, reply |-> reply, before |-> map, after |-> after]

\* the task panics: nothing is sent, the task is gone
Panic(c, entries, after) ==
    /\ status' = [status EXCEPT ![c] = "panicked"]
    /\ log' = [log EXCEPT ![c] = Append(@, Logged(entries, "panic", <<>>, after))]
    /\ UNCHANGED out

\* Connection::send_response, after which the loop goes on
Reply(c, entries, outcome, reply, after) ==
    /\ out' = [out EXCEPT ![c] = Append(@, reply)]
    /\ log' = [log EXCEPT ![c] = Append(@, Logged(entries, outcome, reply, after))]
    /\ UNCHANGED status

\* one iteration of the loop of the connection task in Server::run
ServerStep(c) ==
    /\ status[c] = "open"
    /\ UNCHANGED <<variant, now, last, eof, sent, taskVars>>
    /\ IF sock[c] = <<>>
       THEN \* read returns 0 bytes: the loop is left
            /\ eof[c]
            /\ status' = [status EXCEPT ![c] = "closed"]
            /\ UNCHANGED <<map, file, lastSet, sock, out, log>>
       ELSE LET n == read_size(Len(sock[c]))
                str == read_command(sock[c], n)
                result == RESPParser_parse(str)
            IN  /\ sock' = [sock EXCEPT ![c] = Drop(@, n)]
                /\ IF result = None
                   THEN Panic(c, <<>>, map) /\ UNCHANGED <<map, file, lastSet>>
                   ELSE LET entries == extract_array_entries(result[1])
                            parsed == CommandParser_new(entries, now)
                        IN  IF parsed.tag = "err"
                            THEN /\ Reply(c, entries, "error", ErrUnknownCommand, map)
                                 /\ UNCHANGED <<map, file, lastSet>>
                            ELSE IF parsed.tag = "panic"
                            THEN Panic(c, entries, map) /\ UNCHANGED <<map, file, lastSet>>
                            ELSE \E order \in (IF parsed.cmd.name \in {"Save", "Keys"}
                                               THEN Orders(DOMAIN map) ELSE {<<>>}),
                                    io \in (IF parsed.cmd.name = "Save"
                                            THEN IoOutcomes ELSE {"ok"}) :
                                   LET r == execute(parsed.cmd, variant, map, file, now, order, io)
                                   IN  /\ map' = r.map
                                       /\ file' = r.file
                                       /\ lastSet' =
                                            IF parsed.cmd.name = "Set"
                                            THEN insert(lastSet, parsed.cmd.key,
                                                        Value(parsed.cmd.value, parsed.cmd.expiry))
                                            ELSE lastSet
                                       /\ IF r.tag = "ok"
                                          THEN Reply(c, entries, "reply", r.reply, r.map)
                                          ELSE Panic(c, entries, r.map)

TickServer ==
    /\ now < MaxTime
    /\ now' = now + 1
    /\ UNCHANGED <<variant, map, file, last, lastSet, connVars, taskVars>>

Next ==
    \/ \E c \in Conns, frame \in ClientFrames : ClientSend(c, frame)
    \/ \E c \in Conns : ClientClose(c)
    \/ \E c \in Conns : ServerStep(c)
    \/ TickServer

Spec == InitServer /\ [][Next]_vars

(***************************************************************************)
(* Properties of the server (Spec)                                         *)
(***************************************************************************)
NilReply == <<"$", "-", "1", CR, LF>>
OkReply == <<"+", "O", "K", CR, LF>>
PongReply == <<"+", "P", "O", "N", "G", CR, LF>>
BulkReply(v) == <<"$">> \o Decimal(Len(v)) \o <<CR, LF>> \o v \o <<CR, LF>>

IsText(entry, t) == entry.kind = "Text" /\ entry.v = t
IsPing(args) == Len(args) = 1 /\ IsText(args[1], PING)
IsGet(args) == Len(args) = 2 /\ IsText(args[1], GET) /\ args[2].kind = "Text"
IsPlainSet(args) ==
    Len(args) = 3 /\ IsText(args[1], SET) /\ args[2].kind = "Text" /\ args[3].kind = "Text"
IsUnknown(args) == args # <<>> /\ args[1].kind = "Text" /\ args[1].v \notin KnownCommands

\* C2: a key that was never set is absent: Storage::get returns None for it in
\* every reachable state, whatever was done to other keys, and every GET
\* command for such a key was answered with exactly $-1 CR LF.
C2_NeverSetAbsent ==
    /\ \A k \in Keys \cup {NeverSetKey} : k \notin DOMAIN lastSet => get(map, now, k) = None
    /\ \A c \in Conns : \A i \in 1..Len(log[c]) :
          (IsGet(log[c][i].args) /\ log[c][i].args[2].v \notin DOMAIN lastSet)
              => (log[c][i].outcome = "reply" /\ log[c][i].reply = NilReply
                  /\ out[c][i] = NilReply)

\* a GET for a key never set was answered after another key had been set
C2_Witness ==
    \E c \in Conns : \E i \in 1..Len(log[c]) :
        /\ IsGet(log[c][i].args)
        /\ log[c][i].args[2].v \notin DOMAIN lastSet
        /\ log[c][i].before # << >>
        /\ log[c][i].reply = NilReply

\* C4: SET key value is answered +OK, and the GET of that key that follows on
\* the same connection is answered with the bulk string of the stored value.
C4_SetThenGetBulk ==
    \A c \in Conns : \A i \in 1..Len(log[c]) :
        IsPlainSet(log[c][i].args)
            => /\ log[c][i].reply = OkReply
               /\ (i < Len(log[c]) /\ IsGet(log[c][i + 1].args)
                      /\ log[c][i + 1].args[2].v = log[c][i].args[2].v)
                     => log[c][i + 1].reply = BulkReply(log[c][i].args[3].v)

\* C5: a frame that names an unknown command is answered with
\* -ERR unknown command, leaves the key map as it was and leaves the
\* connection task running: the task has not panicked, it ends only when the
\* client has shut down, and the command it decodes next is executed and
\* answered normally (PING with +PONG, a plain SET with +OK and the key
\* stored, a GET of a key never set with $-1).
C5_UnknownCommand ==
    \A c \in Conns : \A i \in 1..Len(log[c]) :
        IsUnknown(log[c][i].args)
            => /\ log[c][i].outcome = "error"
               /\ log[c][i].reply = ErrUnknownCommand
               /\ out[c][i] = ErrUnknownCommand
               /\ log[c][i].after = log[c][i].before
               /\ i = Len(log[c])
                     => /\ status[c] # "panicked"
                        /\ status[c] = "closed" => (eof[c] /\ sock[c] = <<>>)
               /\ i < Len(log[c])
                     => LET next == log[c][i + 1]
                        IN  /\ IsPing(next.args)
                                => (next.outcome = "reply" /\ next.reply = PongReply)
                            /\ IsPlainSet(next.args)
                                => /\ next.outcome = "reply"
                                   /\ next.reply = OkReply
                                   /\ next.args[2].v \in DOMAIN next.after
                                   /\ next.after[next.args[2].v] = Value(next.args[3].v, None)
                            /\ (IsGet(next.args) /\ next.args[2].v \notin DOMAIN next.before)
                                => (next.outcome = "reply" /\ next.reply = NilReply)

\* an unknown command was rejected while the map held a key, and the plain SET
\* sent after it was executed and answered
C5_Witness ==
    \E c \in Conns :
        /\ Len(log[c]) = 2
        /\ IsUnknown(log[c][1].args)
        /\ log[c][1].reply = ErrUnknownCommand
        /\ IsPlainSet(log[c][2].args)
        /\ log[c][2].reply = OkReply
        /\ status[c] = "open"

\* C6: on a connection whose task is running and has read everything the
\* client wrote, there is exactly one reply per frame the client wrote, the
\* i-th reply answering the i-th frame.
C6_OneReplyPerFrame ==
    \A c \in Conns :
        (status[c] = "open" /\ sock[c] = <<>> /\ (\A i \in 1..Len(sent[c]) : sent[c][i] \in CommandFrames))
            => /\ Len(out[c]) = Len(sent[c])
               /\ \A i \in 1..Len(out[c]) :
                     /\ out[c][i] = log[c][i].reply
                     /\ RESPParser_parse(sent[c][i]) = Some(
                            [j \in 1..Len(log[c][i].args) |->
                                [rule |-> "string", str |-> log[c][i].args[j].v]])

\* C7: no client input makes a connection task panic.  The statement is made
\* of the frames that decode to a sequence of entries and do not touch the
\* file system (such as KEYS with a pattern that is no valid matcher): no
\* loop iteration that decoded such a frame ends in a panic.
C7_NoPanic ==
    \A c \in Conns : \A i \in 1..Len(log[c]) :
        (log[c][i].args # <<>> /\ ~IsText(log[c][i].args[1], SAVE))
            => log[c][i].outcome # "panic"

IsSave(args) == Len(args) = 1 /\ IsText(args[1], SAVE)

\* C11: a SAVE whose snapshot write succeeded is answered +OK CR LF, and a
\* SAVE whose write failed is answered with no reply text at all (the
\* execution yields the error kind instead).
C11_SaveRepliesOk ==
    \A c \in Conns : \A i \in 1..Len(log[c]) :
        IsSave(log[c][i].args)
            => IF log[c][i].outcome = "reply"
               THEN log[c][i].reply = OkReply
               ELSE log[c][i].reply = <<>>

\* C12: a SAVE whose snapshot write fails is recoverable: the client gets an
\* error reply and the connection task goes on with the loop.
C12_SaveFailureRecoverable ==
    \A c \in Conns : \A i \in 1..Len(log[c]) :
        (IsSave(log[c][i].args) /\ log[c][i].outcome # "reply")
            => /\ log[c][i].outcome = "error"
               /\ Len(out[c]) >= i
               /\ out[c][i] = log[c][i].reply
               /\ status[c] # "panicked"

IsKeys(args) == Len(args) >= 2 /\ IsText(args[1], KEYS) /\ args[2].kind = "Text"
IsConfigGet(args) == Len(args) >= 3 /\ IsText(args[1], CONFIG) /\ args[3].kind = "Text"

\* C18: get is read-only, and so are keys and config: a GET, KEYS or CONFIG
\* GET command leaves the key map exactly as it found it, whether the key is
\* absent, live or expired.
C18_ReadOnly ==
    \A c \in Conns : \A i \in 1..Len(log[c]) :
        (IsGet(log[c][i].args) \/ IsKeys(log[c][i].args) \/ IsConfigGet(log[c][i].args))
            => log[c][i].after = log[c][i].before

\* a GET of a key whose entry had expired was answered as absent and the
\* entry is still in the map
C18_Witness ==
    \E c \in Conns : \E i \in 1..Len(log[c]) :
        /\ IsGet(log[c][i].args)
        /\ log[c][i].reply = NilReply
        /\ log[c][i].args[2].v \in DOMAIN log[c][i].after
        /\ log[c][i].after[log[c][i].args[2].v].expiry # None
        /\ log[c][i].after = log[c][i].before

(***************************************************************************)
(* The server loop fed with SET frames of every length                     *)
(***************************************************************************)
NextSet ==
    \/ \E c \in Conns, frame \in SetFrames : ClientSend(c, frame)
    \/ \E c \in Conns : ClientClose(c)
    \/ \E c \in Conns : ServerStep(c)
    \/ TickServer

SpecSet == InitServer /\ [][NextSet]_vars

\* a SET frame with a key and a value
IsSet(args) ==
    Len(args) >= 3 /\ IsText(args[1], SET) /\ args[2].kind = "Text" /\ args[3].kind = "Text"

\* the millisecond count an entry stands for, if any: an integer that is not
\* negative, or a text of digits
millis_of(entry) ==
    IF entry.kind = "Int"
    THEN IF entry.v >= 0 THEN Some(entry.v) ELSE None
    ELSE IF entry.kind = "Text" THEN parse_u64(entry.v) ELSE None

\* C23: SET expiry is positional: a loop iteration that handles a SET frame
\* of exactly 5 elements whose element at index 4 is a millisecond count stores
\* the value with expiry = the clock reading of that iteration + the count; one
\* that handles a SET frame of any other length stores the value with no
\* expiry; both are answered +OK.
C23_SetExpiryPositional ==
    [][\A c \in Conns :
          Len(log'[c]) = Len(log[c]) + 1 =>
             LET e == log'[c][Len(log'[c])]
             IN  (IsSet(e.args) /\ (Len(e.args) = 5 => millis_of(e.args[5]) # None))
                     => /\ e.outcome = "reply"
                        /\ e.reply = OkReply
                        /\ e.args[2].v \in DOMAIN e.after
                        /\ e.after[e.args[2].v] =
                              Value(e.args[3].v,
                                    IF Len(e.args) = 5
                                    THEN Some(now + millis_of(e.args[5])[1])
                                    ELSE None)]_vars

\* a 5-element SET frame whose element at index 4 is a text that is no number
IsSetBadExpiry(args) ==
    IsSet(args) /\ Len(args) = 5 /\ args[5].kind = "Text" /\ parse_u64(args[5].v) = None

\* C24: a 5-element SET frame whose expiry argument is not a number is a
\* recoverable error: the loop iteration that handled it ended with an error
\* reply ("-" first) sent to the client, left the key map as it was, and the
\* connection task has not panicked.
C24_BadExpiryRecoverable ==
    \A c \in Conns : \A i \in 1..Len(log[c]) :
        IsSetBadExpiry(log[c][i].args)
            => /\ log[c][i].outcome = "error"
               /\ log[c][i].after = log[c][i].before
               /\ Len(out[c]) >= i
               /\ out[c][i] = log[c][i].reply
               /\ log[c][i].reply # <<>>
               /\ log[c][i].reply[1] = "-"
               /\ status[c] # "panicked"

(***************************************************************************)
(* The snapshot codec on its own: a key space is written, the file is read *)
(***************************************************************************)
KeySpaces == UNION { [D -> [value : Vals, expiry : Expiries]] : D \in SUBSET Keys }

InitCodec ==
    /\ variant = "RdbStorage"
    /\ map \in KeySpaces
    /\ now \in Instants
    /\ file = None
    /\ last = NoCall
    /\ lastSet = << >>
    /\ sock = [c \in Conns |-> <<>>]
    /\ eof = [c \in Conns |-> FALSE]
    /\ out = [c \in Conns |-> <<>>]
    /\ status = [c \in Conns |-> "closed"]
    /\ sent = [c \in Conns |-> <<>>]
    /\ log = [c \in Conns |-> <<>>]
    /\ NoTasks

\* write_rdb_file(path, map) returning Ok
CodecWrite ==
    /\ \E order \in Orders(DOMAIN map) : file' = Some(write_rdb_file(map, order))
    /\ last' = [op |-> "write", key |-> <<>>, ret |-> <<>>, at |-> now]
    /\ UNCHANGED <<variant, map, now, lastSet, connVars, taskVars>>

\* parse_rdb_file(path)
CodecParse ==
    /\ last' = [op |-> "parse", key |-> <<>>, ret |-> parse_rdb_file(file, now), at |-> now]
    /\ UNCHANGED <<variant, map, now, file, lastSet, connVars, taskVars>>

\* the strings handed to write_rdb_string: the keys and values of the key
\* spaces, and a key of MaxStringLen bytes, one more than a byte can count
LongKey == Seq_of([i \in 1..MaxStringLen |-> "k"])
WriterStrings == Keys \cup Vals \cup {LongKey}

\* write_rdb_string(buf, k) on an empty buffer
CodecWriteString(k) ==
    /\ last' = [op |-> "write_string", key |-> k, ret |-> write_rdb_string(k), at |-> now]
    /\ UNCHANGED <<variant, map, now, file, lastSet, connVars, taskVars>>

NextCodec ==
    \/ CodecWrite
    \/ CodecParse
    \/ \E k \in WriterStrings : CodecWriteString(k)

SpecCodec == InitCodec /\ [][NextCodec]_vars

\* C8: reading the file that write_rdb_file wrote for a key space succeeds
\* and yields that key space: the same keys, values and expiries.
C8_RoundTrip ==
    (last.op = "parse" /\ file # None)
        => (last.ret.tag = "ok" /\ last.ret.map = map)

\* C22: for every string the snapshot writer writes, the length byte equals
\* the number of payload bytes written after it, also for a string of more
\* than 255 bytes.
C22_LengthPrefix ==
    last.op = "write_string" => last.ret[1] = Len(last.ret) - 1

\* the type bytes of an entry with an expiry: 0xFC (milliseconds), 0xFD (seconds)
ExpiryTypeBytes == {252, 253}

\* C25: the snapshot writer encodes each entry's expiry: the file written for
\* a key space holds a type byte 0xFC or 0xFD exactly when some entry has an
\* expiry (no other byte of the files of the model has these values), and
\* reading the written file gives every key that had an expiry that expiry
\* again.
C25_ExpiryWritten ==
    /\ (last.op = "write" /\ file # None)
          => ((\E k \in DOMAIN map : map[k].expiry # None)
                 <=> (\E i \in 1..Len(file[1]) : file[1][i] \in ExpiryTypeBytes))
    /\ (last.op = "parse" /\ file # None)
          => \A k \in DOMAIN map :
                map[k].expiry # None
                    => /\ last.ret.tag = "ok"
                       /\ k \in DOMAIN last.ret.map
                       /\ last.ret.map[k].expiry = map[k].expiry

(***************************************************************************)
(* Connection tasks in parallel: server.rs spawns one task per connection  *)
(* and the tasks share one Storage.  A task suspends at each await of the  *)
(* lock; the code between two awaits of one task runs while the other      *)
(* tasks run theirs on their own worker threads, so write_rdb_file (which  *)
(* holds no lock) interleaves with them one file operation at a time.      *)
(* Each task runs commands the loop has decoded.                           *)
(***************************************************************************)
TaskFrames ==
    { Frame(<<SET, <<"a">>, <<"b", "a", "r">> >>),
      Frame(<<SET, <<"a">>, <<"x">>, <<"P", "X">>, <<"1">> >>),
      Frame(<<GET, <<"a">> >>),
      Frame(<<SAVE>>) }

\* the commands of the fairly scheduled tasks: one for each storage operation
\* that takes the lock, KEYS with a pattern that compiles and with one that
\* does not
FairFrames ==
    { Frame(<<SET, <<"a">>, <<"b", "a", "r">> >>),
      Frame(<<GET, <<"a">> >>),
      Frame(<<SAVE>>),
      Frame(<<KEYS, <<"*">> >>),
      Frame(<<KEYS, <<"(">> >>) }

\* what the loop makes of a frame that arrives alone: read_command, the
\* decoder, extract_array_entries, CommandParser::new at Instant t
Decoded(frame, t) ==
    LET bytes == FrameBytes[frame]
        str == read_command(bytes, read_size(Len(bytes)))
    IN  CommandParser_new(extract_array_entries(RESPParser_parse(str)[1]), t).cmd

TaskCommands ==
    [frame \in TaskFrames \cup FairFrames |-> [t \in Instants |-> Decoded(frame, t)]]

\* RwLock::read resolves when no task holds the write guard
can_read(l) == l.writer = None

\* a lock whose write guard excludes nobody
can_write_always(l) == TRUE

\* RwLock::write resolves when no task holds any guard
can_write(l) == l.writer = None /\ l.readers = {}

\* write_all through a descriptor opened by File::create: the bytes go to
\* offset 0 of the file as it is now, what lies beyond them stays
write_at_start(content, buf) == buf \o Drop(content, Len(buf))

InitTasks ==
    /\ variant \in {"InMemoryStorage", "RdbStorage"}
    /\ map = << >>
    /\ now = 0
    /\ file = None
    /\ last = NoCall
    /\ lastSet = << >>
    /\ sock = [c \in Conns |-> <<>>]
    /\ eof = [c \in Conns |-> FALSE]
    /\ out = [c \in Conns |-> <<>>]
    /\ status = [c \in Conns |-> "closed"]
    /\ sent = [c \in Conns |-> <<>>]
    /\ log = [c \in Conns |-> <<>>]
    /\ NoTasks

\* task c has decoded a command and calls execute: SET awaits the write
\* lock, GET and SAVE (RdbStorage) await the read lock; InMemoryStorage::save
\* returns at once
TaskBegin(c, frame) ==
    /\ task[c].pc = "idle"
    /\ LET cmd == TaskCommands[frame][now]
       IN  task' = [task EXCEPT ![c] =
                IF cmd.name = "Set" THEN [pc |-> "write_wait", cmd |-> cmd, tmp |-> <<>>]
                ELSE IF cmd.name = "Save" /\ variant = "InMemoryStorage" THEN Idle
                ELSE [pc |-> "read_wait", cmd |-> cmd, tmp |-> <<>>]]
    /\ UNCHANGED <<storageVars, connVars, mainVars, lock, written, seen>>

\* self.map.write().await resolves
AcquireWrite(c) ==
    /\ task[c].pc = "write_wait"
    /\ can_write(lock)
    /\ lock' = [lock EXCEPT !.writer = Some(c)]
    /\ task' = [task EXCEPT ![c].pc = "insert"]
    /\ lastSet' = insert(lastSet, task[c].cmd.key, Value(task[c].cmd.value, task[c].cmd.expiry))
    /\ written' = written \cup {<<task[c].cmd.key, Value(task[c].cmd.value, task[c].cmd.expiry)>>}
    /\ UNCHANGED <<variant, map, now, file, last, connVars, mainVars, seen>>

\* .insert(key, value) under the write guard, which is dropped after it
Insert(c) ==
    /\ task[c].pc = "insert"
    /\ map' = set(map, task[c].cmd.key, Value(task[c].cmd.value, task[c].cmd.expiry))
    /\ seen' = seen \cup {map'}
    /\ lock' = [lock EXCEPT !.writer = None]
    /\ task' = [task EXCEPT ![c] = Idle]
    /\ last' = [op |-> "set", key |-> task[c].cmd.key, ret |-> <<>>, at |-> now,
                waiting |-> {d \in Tasks : task[d].pc = "write_wait"}]
    /\ UNCHANGED <<variant, now, file, lastSet, connVars, mainVars, written>>

\* self.map.read().await resolves
AcquireRead(c) ==
    /\ task[c].pc = "read_wait"
    /\ can_read(lock)
    /\ lock' = [lock EXCEPT !.readers = @ \cup {c}]
    /\ task' = [task EXCEPT ![c].pc = "read"]
    /\ UNCHANGED <<storageVars, connVars, mainVars, written, seen>>

\* a read whose guard outlives the statement: it is never dropped
ReadMap_keeping_guard(c) ==
    /\ task[c].pc = "read"
    /\ task[c].cmd.name # "Keys"
    /\ task' = [task EXCEPT ![c].tmp = map,
                            ![c].pc = IF task[c].cmd.name = "Get" THEN "expiry_check" ELSE "create"]
    /\ UNCHANGED <<storageVars, connVars, mainVars, lock, written, seen>>

\* under the read guard: get(key)?.clone() of GET, .clone() of save; the
\* guard is dropped at the end of the statement
ReadMap(c) ==
    /\ task[c].pc = "read"
    /\ task[c].cmd.name # "Keys"
    /\ lock' = [lock EXCEPT !.readers = @ \ {c}]
    /\ task' = [task EXCEPT ![c].tmp = map,
                            ![c].pc = IF task[c].cmd.name = "Get" THEN "expiry_check" ELSE "create"]
    /\ UNCHANGED <<storageVars, connVars, mainVars, written, seen>>

\* the rest of Storage::get: the expiry of the clone against Instant::now()
GetReturn(c) ==
    /\ task[c].pc = "expiry_check"
    /\ last' = [op |-> "get", key |-> task[c].cmd.key,
                ret |-> get(task[c].tmp, now, task[c].cmd.key), at |-> now]
    /\ task' = [task EXCEPT ![c] = Idle]
    /\ UNCHANGED <<variant, map, now, file, lastSet, connVars, mainVars, lock, written, seen>>

\* write_rdb_file up to File::create, which empties the file; the buffer is
\* filled from the clone.  An error here fails the execute of SAVE, and the
\* expect of the loop panics the task.
FileCreate(c) ==
    /\ task[c].pc = "create"
    /\ \E io \in {"ok", "create_fails"} :
          IF io = "ok"
          THEN /\ file' = Some(<<>>)
               /\ \E order \in Orders(DOMAIN task[c].tmp) :
                     task' = [task EXCEPT ![c].pc = "write_all",
                                          ![c].tmp = write_rdb_file(task[c].tmp, order)]
          ELSE /\ file' = file
               /\ task' = [task EXCEPT ![c] = [pc |-> "panicked", cmd |-> <<>>, tmp |-> <<>>]]
    /\ UNCHANGED <<variant, map, now, last, lastSet, connVars, mainVars, lock, written, seen>>

\* f.write_all(&buf) of write_rdb_file
WriteAll(c) ==
    /\ task[c].pc = "write_all"
    /\ \E io \in {"ok", "write_fails"} :
          IF io = "ok"
          THEN /\ file' = Some(write_at_start(file[1], task[c].tmp))
               /\ task' = [task EXCEPT ![c] = Idle]
               /\ last' = [op |-> "save", key |-> <<>>, ret |-> task[c].tmp, at |-> now]
          ELSE /\ file' = file
               /\ task' = [task EXCEPT ![c] = [pc |-> "panicked", cmd |-> <<>>, tmp |-> <<>>]]
               /\ last' = last
    /\ UNCHANGED <<variant, map, now, lastSet, connVars, mainVars, lock, written, seen>>

\* the rest of Storage::keys: the keys of the map are matched under the read
\* guard, which lives to the end of the function; Regex::new(..).unwrap()
\* panics on a pattern that does not compile, and the unwinding drops the guard
KeysReturn(c) ==
    /\ task[c].pc = "read"
    /\ task[c].cmd.name = "Keys"
    /\ lock' = [lock EXCEPT !.readers = @ \ {c}]
    /\ IF needle_panics(task[c].cmd.key)
       THEN /\ task' = [task EXCEPT ![c] = [pc |-> "panicked", cmd |-> <<>>, tmp |-> <<>>]]
            /\ last' = last
       ELSE /\ task' = [task EXCEPT ![c] = Idle]
            /\ \E order \in Orders(DOMAIN map) :
                  last' = [op |-> "keys", key |-> task[c].cmd.key,
                           ret |-> keys(task[c].cmd.key, order), at |-> now]
    /\ UNCHANGED <<variant, map, now, file, lastSet, connVars, mainVars, written, seen>>

NextTasks ==
    \/ \E c \in Tasks, frame \in TaskFrames : TaskBegin(c, frame)
    \/ \E c \in Tasks : AcquireWrite(c)
    \/ \E c \in Tasks : Insert(c)
    \/ \E c \in Tasks : AcquireRead(c)
    \/ \E c \in Tasks : ReadMap(c)
    \/ \E c \in Tasks : GetReturn(c)
    \/ \E c \in Tasks : FileCreate(c)
    \/ \E c \in Tasks : WriteAll(c)
    \/ TickServer

SpecTasks == InitTasks /\ [][NextTasks]_vars

(***************************************************************************)
(* The tasks under fair scheduling.  The runtime polls every task that can *)
(* make a step (weak fairness of the steps that wait for nothing), and the *)
(* RwLock of tokio queues its waiters first come first served, so a task   *)
(* that waits for the lock gets it once it has been free often enough      *)
(* (strong fairness of the two acquisitions).  Clients need not send.      *)
(***************************************************************************)
NextTasksFair ==
    \/ \E c \in Tasks, frame \in FairFrames : TaskBegin(c, frame)
    \/ \E c \in Tasks : AcquireWrite(c)
    \/ \E c \in Tasks : Insert(c)
    \/ \E c \in Tasks : AcquireRead(c)
    \/ \E c \in Tasks : ReadMap(c)
    \/ \E c \in Tasks : GetReturn(c)
    \/ \E c \in Tasks : KeysReturn(c)
    \/ \E c \in Tasks : FileCreate(c)
    \/ \E c \in Tasks : WriteAll(c)

TaskFairness ==
    \A c \in Tasks :
        /\ SF_vars(AcquireWrite(c))
        /\ SF_vars(AcquireRead(c))
        /\ WF_vars(Insert(c))
        /\ WF_vars(ReadMap(c))
        /\ WF_vars(GetReturn(c))
        /\ WF_vars(KeysReturn(c))
        /\ WF_vars(FileCreate(c))
        /\ WF_vars(WriteAll(c))

SpecTasksFair == InitTasks /\ [][NextTasksFair]_vars /\ TaskFairness

\* task c holds a guard of the lock
Holds(l, c) == c \in l.readers \/ l.writer = Some(c)

\* task c is inside a storage operation
Busy(c) == task[c].pc \notin {"idle", "panicked"}

\* C26: storage operations never block each other forever.  A task holds a
\* guard only in the step between acquiring it and using the map: not before
\* the call, not after it returned, and not while the snapshot file is created
\* and written.  A guard is acquired only by a task that waits for it, and a
\* task waits only once per command, at its start.  Under fair scheduling
\* every command a task has begun ends: the task returns to its loop, or the
\* task has ended by the panic of a failed command.
C26_NoDeadlock ==
    /\ [](\A c \in Tasks : Holds(lock, c) => task[c].pc \in {"insert", "read"})
    /\ [][\A c \in Tasks :
            /\ (Holds(lock', c) /\ ~Holds(lock, c))
                  => task[c].pc \in {"write_wait", "read_wait"}
            /\ (task'[c].pc \in {"write_wait", "read_wait"}
                    /\ task[c].pc \notin {"write_wait", "read_wait"})
                  => task[c].pc = "idle"]_vars
    /\ \A c \in Tasks : Busy(c) ~> ~Busy(c)

\* a SET holds the write guard while the other task, whose SAVE has released
\* its read guard, is writing the snapshot file
C26_Witness ==
    \E c, d \in Tasks :
        /\ task[c].pc = "write_all"
        /\ task[d].pc = "insert"
        /\ lock.writer = Some(d)
        /\ lock.readers = {}

(***************************************************************************)
(* Properties of the parallel tasks (SpecTasks)                            *)
(***************************************************************************)
\* C13: set and get are atomic under every interleaving of the tasks:
\* whenever no task holds the write guard, the map holds for every key
\* exactly the (value, expiry) pair of the SET that acquired the write lock
\* last, and every value a get returned is a pair that one SET wrote.
C13_SetGetAtomic ==
    /\ lock.writer = None => map = lastSet
    /\ (last.op = "get" /\ last.ret # None) => <<last.key, last.ret[1]>> \in written

\* a SET has completed while the SET of the other task, to the same key with
\* another value, was waiting for the lock, after an earlier SET
C13_Witness ==
    /\ last.op = "set"
    /\ lock.writer = None
    /\ Cardinality(written) >= 2
    /\ \E d \in last.waiting :
          /\ task[d].pc = "write_wait"
          /\ task[d].cmd.key = last.key
          /\ task[d].cmd.value # map[last.key].value

\* C14: when no write of the snapshot is under way (and none has failed),
\* the file is the complete serialization of one key space the map has
\* held: never a mix of two saves or of two key spaces.
C14_SnapshotWhole ==
    (file # None /\ \A c \in Tasks : task[c].pc \notin {"write_all", "panicked"})
        => \E m \in seen : \E order \in Orders(DOMAIN m) : file[1] = write_rdb_file(m, order)

(***************************************************************************)
(* main.rs: the binary's own connection task, handle_client, which answers *)
(* PING and ECHO line by line                                              *)
(***************************************************************************)
MainFrames ==
    { Frame(<<PING>>),
      Frame(<<ECHO, <<"h", "e", "y">> >>),
      Frame(<<ECHO, PING>>),
      PING \o CRLF }

InitMain ==
    /\ variant = "InMemoryStorage"
    /\ map = << >>
    /\ now = 0
    /\ file = None
    /\ last = NoCall
    /\ lastSet = << >>
    /\ sock = [c \in Conns |-> <<>>]
    /\ eof = [c \in Conns |-> FALSE]
    /\ out = [c \in Conns |-> <<>>]
    /\ status = [c \in Conns |-> "open"]
    /\ sent = [c \in Conns |-> <<>>]
    /\ log = [c \in Conns |-> <<>>]
    /\ NoTasks

\* the client writes one frame to its socket
MainClientSend(c, frame) ==
    /\ status[c] = "open"
    /\ ~eof[c]
    /\ Len(sent[c]) < MaxSends
    /\ sock' = [sock EXCEPT ![c] = @ \o as_bytes(frame)]
    /\ sent' = [sent EXCEPT ![c] = Append(@, frame)]
    /\ UNCHANGED <<storageVars, eof, out, status, log, taskVars>>

\* the client shuts down its side of the connection
MainClientClose(c) ==
    /\ status[c] = "open"
    /\ ~eof[c]
    /\ eof' = [eof EXCEPT ![c] = TRUE]
    /\ UNCHANGED <<storageVars, sock, out, status, sent, log, taskVars>>

\* the writes of one pass of the while-let over the line m, given the locals
\* after the pass: +PONG for the line PING, + and the line when the third
\* line counted from ECHO is reached
handle_line_writes(m, found, index) ==
    (IF m = PING \o CRLF THEN <<PongReply>> ELSE <<>>)
        \o (IF found /\ index = 3 THEN << <<"+">> \o m >> ELSE <<>>)

\* one iteration of the loop of handle_client: read_line takes the bytes up
\* to the first line feed (all that is left at end of input), the line is
\* pushed and popped; Ok(0) leaves the loop
HandleLine(c) ==
    /\ status[c] = "open"
    /\ IndexOf(sock[c], CharCode(LF)) # 0 \/ eof[c]
    /\ LET n == IF IndexOf(sock[c], CharCode(LF)) # 0
                THEN IndexOf(sock[c], CharCode(LF)) ELSE Len(sock[c])
           m == from_utf8_lossy(SubSeq(sock[c], 1, n))
           found == found_echo[c] \/ m = ECHO \o CRLF
           index == IF found THEN echo_index[c] + 1 ELSE echo_index[c]
       IN  IF n = 0
           THEN /\ status' = [status EXCEPT ![c] = "closed"]
                /\ UNCHANGED <<sock, out, found_echo, echo_index>>
           ELSE /\ sock' = [sock EXCEPT ![c] = Drop(@, n)]
                /\ found_echo' = [found_echo EXCEPT ![c] = found]
                /\ echo_index' = [echo_index EXCEPT ![c] = index]
                /\ out' = [out EXCEPT ![c] = @ \o handle_line_writes(m, found, index)]
                /\ UNCHANGED status
    /\ UNCHANGED <<storageVars, eof, sent, log, lock, task, written, seen>>

NextMain ==
    \/ \E c \in Conns, frame \in MainFrames : MainClientSend(c, frame)
    \/ \E c \in Conns : MainClientClose(c)
    \/ \E c \in Conns : HandleLine(c)

SpecMain == InitMain /\ [][NextMain]_vars

\* the reply the design gives a PING or ECHO frame: +PONG, or + and the one
\* text argument
EchoReply(a) == <<"+">> \o a \o CRLF
ExpectedReplies(frame) ==
    IF frame = Frame(<<ECHO, <<"h", "e", "y">> >>) THEN <<EchoReply(<<"h", "e", "y">>)>>
    ELSE IF frame = Frame(<<ECHO, PING>>) THEN <<EchoReply(PING)>>
    ELSE <<PongReply>>

RECURSIVE AllExpectedReplies(_)
AllExpectedReplies(frames) ==
    IF frames = <<>> THEN <<>>
    ELSE ExpectedReplies(Head(frames)) \o AllExpectedReplies(Tail(frames))

\* C15: every ECHO frame with one text argument a is answered with exactly
\* one reply +a CR LF, whatever PING and ECHO frames came before it on the
\* connection: once the task has read all the client wrote, the replies
\* sent are exactly one per frame, +PONG for a PING and +a for an ECHO a.
C15_EchoAnswered ==
    \A c \in Conns :
        (status[c] = "open" /\ sock[c] = <<>>) => out[c] = AllExpectedReplies(sent[c])

(***************************************************************************)
(* Storage::load on the snapshot file found on disk.  The files are those  *)
(* of the format the reader accepts (header, metadata up to 0xFE, 0xFB and *)
(* two size bytes, entries, 0xFF) and damaged ones.                        *)
(***************************************************************************)
\* eight bytes, little endian, of a timestamp below 2^16
le_bytes8(n) == <<n % 256, n \div 256, 0, 0, 0, 0, 0, 0>>

\* entries as the reader takes them: type 0x00, or 0xFC with a timestamp in
\* milliseconds and one more byte, then key and value
PlainEntry(k, v) == <<0>> \o write_rdb_string(k) \o write_rdb_string(v)
MillisEntry(stamp, k, v) ==
    <<252>> \o le_bytes8(stamp) \o <<0>> \o write_rdb_string(k) \o write_rdb_string(v)

SecondsEntry(stamp, k, v) ==
    <<253>> \o <<stamp % 256, stamp \div 256, 0, 0>> \o <<0>>
        \o write_rdb_string(k) \o write_rdb_string(v)

SnapshotHead == Magic \o <<0, 0, 0, 9>> \o <<250, 254, 0, 251, 2, 1>>

\* well-formed files: no entry; one entry; two entries, one with a deadline
\* one millisecond after Instant 0
FileEmpty == SnapshotHead \o <<255>>
FileOne == SnapshotHead \o PlainEntry(<<"a", "b">>, <<"x">>) \o <<255>>
FileTwo ==
    SnapshotHead \o PlainEntry(<<"a">>, <<"b", "a", "r">>)
        \o MillisEntry(SystemTimeAt(0) + 1, <<"a", "b">>, <<"x">>) \o <<255>>
\* one entry whose deadline, one second after the epoch, has long passed
FilePast == SnapshotHead \o SecondsEntry(1, <<"a">>, <<"b", "a", "r">>) \o <<255>>
WellFormedFiles == {FileEmpty, FileOne, FileTwo, FilePast}

\* damaged files: too short for the header; a wrong magic; no 0xFB marker
\* (the file write_rdb_file writes); the value of the second entry cut
\* short; the file ending after a key; the file ending inside an expiry
FileShort == SubSeq(FileOne, 1, 5)
FileBadMagic == <<CharCode("X")>> \o Tail(FileOne)
FileNoMarker == write_rdb_file((<<"a">> :> Value(<<"x">>, None)), << <<"a">> >>)
FileCutValue == SubSeq(FileTwo, 1, Len(FileTwo) - 2)
FileCutAfterKey == SubSeq(FileOne, 1, Len(FileOne) - 3)
FileCutExpiry == SubSeq(FileTwo, 1, Len(SnapshotHead) + Len(PlainEntry(<<"a">>, <<"b", "a", "r">>)) + 3)
DamagedFiles ==
    {FileShort, FileBadMagic, FileNoMarker, FileCutValue, FileCutAfterKey, FileCutExpiry}

InitLoad ==
    /\ variant = "RdbStorage"
    /\ map = << >>
    /\ now = 0
    /\ file \in {None} \cup { Some(bytes) : bytes \in WellFormedFiles \cup DamagedFiles }
    /\ last = NoCall
    /\ lastSet = << >>
    /\ sock = [c \in Conns |-> <<>>]
    /\ eof = [c \in Conns |-> FALSE]
    /\ out = [c \in Conns |-> <<>>]
    /\ status = [c \in Conns |-> "closed"]
    /\ sent = [c \in Conns |-> <<>>]
    /\ log = [c \in Conns |-> <<>>]
    /\ NoTasks

\* Storage::load; `ret` keeps what parse_rdb_file returned, `before` the map
\* the call found
StorageLoad ==
    /\ map' = load(variant, map, file, now).map
    /\ last' = [op |-> "load", key |-> <<>>, at |-> now, before |-> map,
                ret |-> [tag |-> load(variant, map, file, now).tag,
                         parsed |-> parse_rdb_file(file, now)]]
    /\ UNCHANGED <<variant, now, file, lastSet>>
    /\ UNCHANGED <<connVars, taskVars>>

\* the panic of a load ends the process
Crashed == last.op = "load" /\ last.ret.tag = "panic"

NextLoad ==
    \/ ~Crashed /\ \E key \in Keys, v \in Vals, e \in Expiries : StorageSet(key, v, e)
    \/ ~Crashed /\ \E key \in Keys : StorageGet(key)
    \/ ~Crashed /\ StorageLoad
    \/ ~Crashed /\ Tick

SpecLoad == InitLoad /\ [][NextLoad]_vars

\* the keys and values each well-formed file holds
FileContents ==
    (FileEmpty :> << >>)
        @@ (FileOne :> (<<"a", "b">> :> <<"x">>))
        @@ (FileTwo :> ((<<"a">> :> <<"b", "a", "r">>) @@ (<<"a", "b">> :> <<"x">>)))
        @@ (FilePast :> (<<"a">> :> <<"b", "a", "r">>))

\* C19: a load of the durable storage that returns has replaced the map by
\* the contents of the snapshot: the map holds exactly the keys and values
\* of the file, no key set before the load survives unless the file has it,
\* and with no file the load returns without error and the map is empty.
C19_LoadReplaces ==
    last.op = "load"
        => /\ file = None => (last.ret.tag = "ok" /\ map = << >>)
           /\ (file # None /\ last.ret.tag = "ok") => map = last.ret.parsed.map
           /\ (file # None /\ file[1] \in WellFormedFiles)
                 => /\ last.ret.tag = "ok"
                    /\ DOMAIN map = DOMAIN FileContents[file[1]]
                    /\ \A k \in DOMAIN map : map[k].value = FileContents[file[1]][k]

\* a load of a well-formed file with one entry has returned on a map that
\* held another key, which is gone
C19_Witness ==
    /\ last.op = "load"
    /\ file = Some(FileOne)
    /\ <<"a">> \in DOMAIN last.before
    /\ DOMAIN map = { <<"a", "b">> }

\* C20: on a damaged snapshot file the reader stops without crashing and
\* returns the entries decoded before the damage together with a reported
\* error, and load does not panic.
C20_DamagedFileTolerated ==
    (last.op = "load" /\ file # None /\ file[1] \in DamagedFiles)
        => /\ last.ret.tag = "ok"
           /\ last.ret.parsed.tag = "ok"
           /\ last.ret.parsed.reported

\* the absolute expiry, in milliseconds since the epoch, of the entries of
\* each well-formed file that have one
FileExpiries ==
    (FileEmpty :> << >>)
        @@ (FileOne :> << >>)
        @@ (FileTwo :> (<<"a", "b">> :> SystemTimeAt(0) + 1))
        @@ (FilePast :> (<<"a">> :> 1000))

\* the entry of key k carries the expiry load gives a timestamp that has
\* passed: one second before the Instant of the load
LoadedExpired(k) == k \in DOMAIN map /\ map[k].expiry # None /\ map[k].expiry[1] < 0

\* C21: an entry of the snapshot whose timestamp is in the past when the
\* file is loaded is kept in the map with an expiry that has passed, and
\* every get of its key returns None for as long as the key is not set again.
C21_PastExpiryKept ==
    /\ (last.op = "load" /\ file # None /\ file[1] \in WellFormedFiles)
          => \A k \in DOMAIN FileExpiries[file[1]] :
                FileExpiries[file[1]][k] < SystemTimeAt(last.at)
                    => /\ k \in DOMAIN map
                       /\ map[k].expiry # None
                       /\ map[k].expiry[1] < last.at
    /\ (last.op = "get" /\ LoadedExpired(last.key)) => last.ret = None

\* a get of a key that the load took from the file with a past timestamp
\* has returned None
C21_Witness ==
    /\ last.op = "get"
    /\ LoadedExpired(last.key)
    /\ last.ret = None

====
